---- MODULE Spec2Model ----
(***************************************************************************)
(* State-machine model of contracts/market-simple/src/sale.rs: the sale    *)
(* registry (add_sale, update_price, remove_sale, get_sale), the purchase  *)
(* reservation (purchase, process_purchase) and the settlement callback    *)
(* (resolve_purchase).                                                     *)
(*                                                                         *)
(* One action is one contract invocation (one receipt).  A panic inside an *)
(* invocation discards every storage write and every promise created by it *)
(* (the runtime's rule), so a failing invocation leaves the contract state *)
(* as it was and only its error is observable.  The outcome of the most    *)
(* recent invocation is kept in `last`.                                    *)
(***************************************************************************)
EXTENDS Integers, Sequences, FiniteSets, TLC

VARIABLES
    sales,            \* self.sales: listing key -> Sale
    storage_deposits, \* self.storage_deposits: accounts that paid for storage
    overflow_checks,  \* build profile: does u128 `+` panic on overflow (TRUE) or wrap
    promises,         \* nft_transfer(..).then(resolve_purchase(..)) pairs, in creation order
    sale_uid,         \* history: key -> identity of the Sale now stored at the key
    next_uid,         \* history: identity the next created Sale gets
    last              \* the most recent invocation: its input, error, return value, receipts

vars == <<sales, storage_deposits, overflow_checks, promises, sale_uid, next_uid, last>>

----------------------------------------------------------------------------
(* Bounds of the model *)

\* width of the amount type in the model; it stands for the 128 of u128
AmountBits == 2
\* largest price an input names
MaxPrice == 1
\* Sales ever created in one behaviour
MaxSales == 2
\* nft_transfer/resolve_purchase pairs awaiting their result at one time
MaxPending == 1

\* longest `prices` argument of the listings enumerated in full
MaxListLen == 3

----------------------------------------------------------------------------
(* Program constants and input sets *)

\* `if payout.len() > 8`
PayoutLimit == 8

U128_MAX == 2 ^ AmountBits - 1

NEAR == "near"
FT == "ft"
FungibleTokenIds == {NEAR, FT}

\* env::current_account_id()
CurrentAccount == "market"
Accounts == {"alice", "bob"}
NftContracts == {"nft"}
TokenIds == {"1"}
\* the custody contract numbers its approvals: the n-th listing carries approval n
ApprovalIds(n) == {n}
\* the deposit books the contract may start from
DepositBooks == {{"alice"}, {"alice", "bob"}}

Prices == 0 .. MaxPrice
Deposits == 0 .. (MaxPrice + 1)

None == [some |-> FALSE, val |-> 0]
Some(x) == [some |-> TRUE, val |-> x]

\* Price { price: Option<U128>, ft_token_id: Option<AccountId> }
PriceItem(price, ft_token_id) == [price |-> price, ft_token_id |-> ft_token_id]

\* the price lists add_sale is called with
SalePriceLists ==
    { << >>,
      << PriceItem(Some(MaxPrice), None) >>,
      << PriceItem(None, None) >>,
      << PriceItem(Some(MaxPrice), Some(FT)) >>,
      << PriceItem(Some(0), None), PriceItem(Some(MaxPrice), None) >>,
      << PriceItem(Some(1), None), PriceItem(None, Some(FT)) >> }

\* receivers a payout may name: PayoutLimit + 1 of them
Receivers == << "alice", "bob", "r3", "r4", "r5", "r6", "r7", "r8", "r9" >>
FirstReceivers(n) == { Receivers[i] : i \in 1 .. n }

\* amounts a payout payload may state; U128_MAX + 1 does not fit a u128
PayloadAmounts == (0 .. (MaxPrice + 1)) \cup {U128_MAX, U128_MAX + 1}

\* payouts of up to two entries: any amount for the first receiver, with or
\* without a second receiver
SmallPayouts ==
    { << >> }
        \cup { [r \in {Receivers[1]} |-> a] : a \in PayloadAmounts }
        \cup { [r \in FirstReceivers(2) |-> IF r = Receivers[1] THEN a ELSE b] :
                 a \in PayloadAmounts, b \in 1 .. 2 }

LongPayouts ==
    { [r \in FirstReceivers(n) |-> IF r = Receivers[1] THEN a ELSE 0] :
        n \in {PayoutLimit, PayoutLimit + 1}, a \in Prices }

\* the bytes nft_transfer returned: a JSON object of receiver -> amount, or not
Payloads ==
    { [json |-> TRUE, entries |-> p] : p \in SmallPayouts \cup LongPayouts }
        \cup { [json |-> FALSE, entries |-> << >>] }

\* env::promise_result(0) once the external call has settled
PromiseResults ==
    { [status |-> "Successful", value |-> v] : v \in Payloads }
        \cup { [status |-> "Failed", value |-> [json |-> FALSE, entries |-> << >>]] }

----------------------------------------------------------------------------
(* Helpers *)

\* format!("{}:{}", contract_id, token_id)
MakeKey(contract_id, token_id) == contract_id \o ":" \o token_id

Keys == { MakeKey(c, t) : c \in NftContracts, t \in TokenIds }

\* HashMap::insert / self.sales.insert
Insert(map, k, v) == [x \in DOMAIN map \cup {k} |-> IF x = k THEN v ELSE map[x]]

\* self.sales.remove
Remove(map, k) == [x \in DOMAIN map \ {k} |-> map[x]]

\* the Sale struct
Sale(owner_id, approval_id, conditions) ==
    [owner_id |-> owner_id, approval_id |-> approval_id,
     conditions |-> conditions, bids |-> << >>]

\* InsertPrice keeping the price a currency already has
InsertPriceFirstWins(conditions, item) ==
    LET ft == IF item.ft_token_id.some THEN item.ft_token_id.val ELSE NEAR
        price == IF item.price.some THEN item.price.val ELSE 0
    IN  IF ft \in DOMAIN conditions THEN conditions ELSE Insert(conditions, ft, price)

\* one iteration of `for item in prices`
InsertPrice(conditions, item) ==
    IF item.ft_token_id.some
    THEN IF item.price.some
         THEN Insert(conditions, item.ft_token_id.val, item.price.val)
         ELSE Insert(conditions, item.ft_token_id.val, 0)
    ELSE IF item.price.some
         THEN Insert(conditions, NEAR, item.price.val)
         ELSE Insert(conditions, NEAR, 0)

RECURSIVE FoldPrices(_, _)
FoldPrices(conditions, prices) ==
    IF prices = << >>
    THEN conditions
    ELSE FoldPrices(InsertPrice(conditions, Head(prices)), Tail(prices))

\* `let mut conditions = HashMap::new(); for item in prices { .. }`
BuildConditions(prices) == FoldPrices(<< >>, prices)

\* assert!(self.storage_deposits.contains(owner_id.as_ref()), ..)
HasStorageDeposit(deposits, owner_id) == owner_id \in deposits

\* IsSaleOwner with the comparison left out
IsSaleOwnerAny(caller, sale) == TRUE

\* assert_eq!(env::predecessor_account_id(), sale.owner_id, "Must be sale owner")
IsSaleOwner(caller, sale) == caller = sale.owner_id

\* ExactPayment accepting an overpayment
ExactPaymentAtLeast(deposit, price) == deposit >= price

\* assert_eq!(env::attached_deposit(), u128::from(*price), ..)
ExactPayment(deposit, price) == deposit = price

\* IsPrivateCall with the comparison left out
IsPrivateCallAny(caller) == TRUE

\* #[private]: the generated entry point compares predecessor and current account
IsPrivateCall(caller) == caller = CurrentAccount

\* Reserve reading the Sale with get instead of taking it out
ReserveKeep(registry, key) == registry

\* `let sale = self.sales.remove(&contract_and_token_id)` in process_purchase
Reserve(registry, key) == Remove(registry, key)

----------------------------------------------------------------------------
(* Receipts an invocation creates *)

\* Promise::new(receiver).transfer(amount)
Transfer(receiver_id, amount) ==
    [kind |-> "transfer", to |-> receiver_id, amount |-> amount, via |-> NEAR]

\* ext_contract::ft_transfer(receiver, amount, None, &ft_token_id, 1, GAS)
FtTransfer(receiver_id, amount, ft_token_id) ==
    [kind |-> "ft_transfer", to |-> receiver_id, amount |-> amount, via |-> ft_token_id]

\* ext_contract::nft_transfer(buyer, token_id, owner, None, price, &contract_id, 1, GAS)
NftTransfer(buyer_id, price, contract_id) ==
    [kind |-> "nft_transfer", to |-> buyer_id, amount |-> price, via |-> contract_id]

----------------------------------------------------------------------------
(* The payout validation and the settlement of resolve_purchase *)

ErrUnwrap == "unwrap on None"
ErrOverflow == "attempt to add with overflow"

\* u128 `a + b`: -1 stands for the panic of a build with overflow checks
AddU128(a, b, checks) ==
    IF a < 0 \/ b < 0
    THEN -1
    ELSE IF a + b > U128_MAX
         THEN IF checks THEN -1 ELSE (a + b) % (U128_MAX + 1)
         ELSE a + b

RECURSIVE ReduceAdd(_, _, _, _)
ReduceAdd(payout, rest, acc, checks) ==
    IF rest = {}
    THEN acc
    ELSE LET r == CHOOSE x \in rest : TRUE
         IN  ReduceAdd(payout, rest \ {r}, AddU128(acc, payout[r], checks), checks)

\* near_sdk::serde_json::from_slice::<Payout>(&value).ok()
ParsePayout(value) ==
    IF value.json /\ \A r \in DOMAIN value.entries : value.entries[r] \in 0 .. U128_MAX
    THEN Some(value.entries)
    ELSE None

\* `let payout_option = match env::promise_result(0) { .. }`
\* err # "" when the invocation panics while computing it
PayoutOption(result, price, checks) ==
    IF result.status = "Failed"
    THEN [err |-> "", option |-> None]
    ELSE LET parsed == ParsePayout(result.value)
         IN  IF ~parsed.some
             THEN [err |-> "", option |-> None]
             ELSE LET payout == parsed.val
                  IN  IF Cardinality(DOMAIN payout) > PayoutLimit
                      THEN [err |-> "", option |-> None]
                      ELSE IF DOMAIN payout = {}
                           THEN [err |-> ErrUnwrap, option |-> None]
                           ELSE LET first == CHOOSE x \in DOMAIN payout : TRUE
                                    sum == ReduceAdd(payout, DOMAIN payout \ {first},
                                                     payout[first], checks)
                                IN  IF sum < 0
                                    THEN [err |-> ErrOverflow, option |-> None]
                                    ELSE IF sum = price
                                         THEN [err |-> "", option |-> Some(payout)]
                                         ELSE [err |-> "", option |-> None]

\* PaidReturn with the native branch reporting nothing left, like the token branch
PaidReturnZero(ft_token_id, price) == 0

\* the value resolve_purchase returns after paying out an accepted payout
PaidReturn(ft_token_id, price) == IF ft_token_id = NEAR THEN price ELSE 0

\* the receipts of the refund branch
RefundReceipts(ft_token_id, buyer_id, price) ==
    IF ft_token_id = NEAR THEN {Transfer(buyer_id, price)} ELSE {}

\* PayoutReceipts with the loops skipping the entries of amount 0
PayoutReceiptsSkipZero(ft_token_id, payout) ==
    IF ft_token_id = NEAR
    THEN { Transfer(r, payout[r]) : r \in { x \in DOMAIN payout : payout[x] > 0 } }
    ELSE { FtTransfer(r, payout[r], ft_token_id) :
             r \in { x \in DOMAIN payout : payout[x] > 0 } }

\* the receipts of the payout loops
PayoutReceipts(ft_token_id, payout) ==
    IF ft_token_id = NEAR
    THEN { Transfer(r, payout[r]) : r \in DOMAIN payout }
    ELSE { FtTransfer(r, payout[r], ft_token_id) : r \in DOMAIN payout }

\* the body of resolve_purchase for one promise result
ResolvePurchase(ft_token_id, buyer_id, sale, result, checks) ==
    IF ft_token_id \notin DOMAIN sale.conditions
    THEN [err |-> ErrUnwrap, ret |-> None, out |-> {}, outcome |-> "Aborted"]
    ELSE LET price == sale.conditions[ft_token_id]
             po == PayoutOption(result, price, checks)
         IN  IF po.err # ""
             THEN [err |-> po.err, ret |-> None, out |-> {}, outcome |-> "Aborted"]
             ELSE IF ~po.option.some
                  THEN [err |-> "", ret |-> Some(price),
                        out |-> RefundReceipts(ft_token_id, buyer_id, price),
                        outcome |-> "Refunded"]
                  ELSE [err |-> "", ret |-> Some(PaidReturn(ft_token_id, price)),
                        out |-> PayoutReceipts(ft_token_id, po.option.val),
                        outcome |-> "Paid"]

----------------------------------------------------------------------------
(* Invocations *)

ErrNoSale == "No sale"
ErrNotOwner == "Must be sale owner"
ErrNoDeposit == "Must call storage_deposit to sell on this market."
ErrNotInNear == "Not for sale in NEAR"
ErrPayment == "Must pay exactly the sale amount"
ErrPrivate == "Method is private"

NoResult == [status |-> "NotReady", value |-> [json |-> FALSE, entries |-> << >>]]

\* the record of an invocation before its fields are filled in
NoCall ==
    [op |-> "none", caller |-> "", key |-> "", owner_id |-> "", approval_id |-> 0,
     prices |-> << >>, ft_token_id |-> "", amount |-> 0, buyer_id |-> "", sid |-> 0,
     result |-> NoResult, err |-> "", ret |-> None, out |-> {}]

\* a panic: the receipt fails, nothing it wrote or scheduled survives
Fail(call, err) ==
    /\ last' = [call EXCEPT !.err = err]
    /\ UNCHANGED <<sales, storage_deposits, overflow_checks, promises, sale_uid, next_uid>>

\* AddSale building on the conditions of a Sale reserved from the same key
AddSaleRevive(caller, nft_contract_id, token_id, owner_id, approval_id, prices) ==
    LET key == MakeKey(nft_contract_id, token_id)
        call == [NoCall EXCEPT !.op = "add_sale", !.caller = caller, !.key = key,
                               !.owner_id = owner_id, !.approval_id = approval_id,
                               !.prices = prices]
        reserved == { i \in 1 .. Len(promises) :
                        /\ promises[i].status = "AwaitingResult"
                        /\ MakeKey(promises[i].nft_contract_id, promises[i].token_id) = key }
        base == IF reserved = {} THEN << >>
                ELSE promises[CHOOSE i \in reserved : TRUE].sale.conditions
    IN  IF ~HasStorageDeposit(storage_deposits, owner_id)
        THEN Fail(call, ErrNoDeposit)
        ELSE /\ next_uid <= MaxSales
             /\ sales' = Insert(sales, key,
                                Sale(owner_id, approval_id, FoldPrices(base, prices)))
             /\ sale_uid' = Insert(sale_uid, key, next_uid)
             /\ next_uid' = next_uid + 1
             /\ last' = call
             /\ UNCHANGED <<storage_deposits, overflow_checks, promises>>

AddSale(caller, nft_contract_id, token_id, owner_id, approval_id, prices) ==
    LET key == MakeKey(nft_contract_id, token_id)
        call == [NoCall EXCEPT !.op = "add_sale", !.caller = caller, !.key = key,
                               !.owner_id = owner_id, !.approval_id = approval_id,
                               !.prices = prices]
    IN  IF ~HasStorageDeposit(storage_deposits, owner_id)
        THEN Fail(call, ErrNoDeposit)
        ELSE /\ next_uid <= MaxSales
             /\ sales' = Insert(sales, key,
                                Sale(owner_id, approval_id, BuildConditions(prices)))
             /\ sale_uid' = Insert(sale_uid, key, next_uid)
             /\ next_uid' = next_uid + 1
             /\ last' = call
             /\ UNCHANGED <<storage_deposits, overflow_checks, promises>>

\* UpdatePrice storing the one price as the whole of the conditions
UpdatePriceReplace(caller, nft_contract_id, token_id, ft_token_id, price) ==
    LET key == MakeKey(nft_contract_id, token_id)
        call == [NoCall EXCEPT !.op = "update_price", !.caller = caller, !.key = key,
                               !.ft_token_id = ft_token_id, !.amount = price]
    IN  IF key \notin DOMAIN sales
        THEN Fail(call, ErrNoSale)
        ELSE IF ~IsSaleOwner(caller, sales[key])
             THEN Fail(call, ErrNotOwner)
             ELSE /\ sales' = Insert(sales, key,
                        [sales[key] EXCEPT
                            !.conditions = Insert(<< >>, ft_token_id, price)])
                  /\ last' = call
                  /\ UNCHANGED <<storage_deposits, overflow_checks, promises,
                                 sale_uid, next_uid>>

UpdatePrice(caller, nft_contract_id, token_id, ft_token_id, price) ==
    LET key == MakeKey(nft_contract_id, token_id)
        call == [NoCall EXCEPT !.op = "update_price", !.caller = caller, !.key = key,
                               !.ft_token_id = ft_token_id, !.amount = price]
    IN  IF key \notin DOMAIN sales
        THEN Fail(call, ErrNoSale)
        ELSE IF ~IsSaleOwner(caller, sales[key])
             THEN Fail(call, ErrNotOwner)
             ELSE /\ sales' = Insert(sales, key,
                        [sales[key] EXCEPT
                            !.conditions = Insert(sales[key].conditions, ft_token_id, price)])
                  /\ last' = call
                  /\ UNCHANGED <<storage_deposits, overflow_checks, promises,
                                 sale_uid, next_uid>>

\* the Sale is taken out first and the owner is checked after; the panic of a
\* failed check undoes the removal
RemoveSale(caller, nft_contract_id, token_id) ==
    LET key == MakeKey(nft_contract_id, token_id)
        call == [NoCall EXCEPT !.op = "remove_sale", !.caller = caller, !.key = key]
    IN  IF key \notin DOMAIN sales
        THEN Fail(call, ErrNoSale)
        ELSE LET sale == sales[key]
                 removed == Remove(sales, key)
             IN  IF ~IsSaleOwner(caller, sale)
                 THEN Fail(call, ErrNotOwner)
                 ELSE /\ sales' = removed
                      /\ sale_uid' = Remove(sale_uid, key)
                      /\ last' = call
                      /\ UNCHANGED <<storage_deposits, overflow_checks, promises, next_uid>>

GetSale(caller, nft_contract_id, token_id) ==
    LET key == MakeKey(nft_contract_id, token_id)
        call == [NoCall EXCEPT !.op = "get_sale", !.caller = caller, !.key = key]
    IN  IF key \notin DOMAIN sales
        THEN Fail(call, ErrNoSale)
        ELSE /\ last' = [call EXCEPT !.ret = Some(sales[key])]
             /\ UNCHANGED <<sales, storage_deposits, overflow_checks, promises,
                            sale_uid, next_uid>>

\* promise pairs whose nft_transfer has not settled yet
Pending == Cardinality({ i \in 1 .. Len(promises) : promises[i].status = "AwaitingResult" })

\* the body of process_purchase, run for the invocation `call`
ProcessPurchase(call, nft_contract_id, token_id, ft_token_id, buyer_id) ==
    LET key == MakeKey(nft_contract_id, token_id)
    IN  IF key \notin DOMAIN sales
        THEN Fail(call, ErrNoSale)
        ELSE LET sale == sales[key]
             IN  IF ft_token_id \notin DOMAIN sale.conditions
                 THEN Fail(call, ErrUnwrap)
                 ELSE LET price == sale.conditions[ft_token_id]
                      IN  /\ Pending < MaxPending
                          /\ sales' = Reserve(sales, key)
                          /\ sale_uid' = [k \in DOMAIN sales' |-> sale_uid[k]]
                          /\ promises' = Append(promises,
                                [nft_contract_id |-> nft_contract_id,
                                 token_id |-> token_id,
                                 ft_token_id |-> ft_token_id,
                                 buyer_id |-> buyer_id,
                                 sale |-> sale,
                                 price |-> price,
                                 uid |-> sale_uid[key],
                                 status |-> "AwaitingResult"])
                          /\ last' = [call EXCEPT
                                !.sid = Len(promises) + 1,
                                !.out = {NftTransfer(buyer_id, price, nft_contract_id)}]
                          /\ UNCHANGED <<storage_deposits, overflow_checks, next_uid>>

\* Purchase taking a missing native condition as a price of 0
PurchaseDefaultPrice(caller, nft_contract_id, token_id, deposit) ==
    LET key == MakeKey(nft_contract_id, token_id)
        call == [NoCall EXCEPT !.op = "purchase", !.caller = caller, !.key = key,
                               !.amount = deposit, !.ft_token_id = NEAR,
                               !.buyer_id = caller]
    IN  IF key \notin DOMAIN sales
        THEN Fail(call, ErrNoSale)
        ELSE LET price == IF NEAR \in DOMAIN sales[key].conditions
                          THEN sales[key].conditions[NEAR]
                          ELSE 0
             IN  IF ~ExactPayment(deposit, price)
                 THEN Fail(call, ErrPayment)
                 ELSE ProcessPurchase(call, nft_contract_id, token_id, NEAR, caller)

Purchase(caller, nft_contract_id, token_id, deposit) ==
    LET key == MakeKey(nft_contract_id, token_id)
        call == [NoCall EXCEPT !.op = "purchase", !.caller = caller, !.key = key,
                               !.amount = deposit, !.ft_token_id = NEAR,
                               !.buyer_id = caller]
    IN  IF key \notin DOMAIN sales
        THEN Fail(call, ErrNoSale)
        ELSE IF NEAR \notin DOMAIN sales[key].conditions
             THEN Fail(call, ErrNotInNear)
             ELSE IF ~ExactPayment(deposit, sales[key].conditions[NEAR])
                  THEN Fail(call, ErrPayment)
                  ELSE ProcessPurchase(call, nft_contract_id, token_id, NEAR, caller)

\* process_purchase invoked through its exported entry point
ProcessPurchaseCall(caller, nft_contract_id, token_id, ft_token_id, buyer_id) ==
    LET call == [NoCall EXCEPT !.op = "process_purchase", !.caller = caller,
                               !.key = MakeKey(nft_contract_id, token_id),
                               !.ft_token_id = ft_token_id, !.buyer_id = buyer_id]
    IN  IF ~IsPrivateCall(caller)
        THEN Fail(call, ErrPrivate)
        ELSE ProcessPurchase(call, nft_contract_id, token_id, ft_token_id, buyer_id)

\* what is kept of a promise pair once its callback has run: the runtime drops
\* the pair, the history keeps which Sale it was for and how it ended
Settled(p, outcome) ==
    [nft_contract_id |-> "", token_id |-> "",
     ft_token_id |-> "", buyer_id |-> "", sale |-> Sale("", 0, << >>),
     price |-> 0, uid |-> p.uid, status |-> outcome]

\* resolve_purchase invoked through its exported entry point by an account
ResolvePurchaseCall(caller, ft_token_id, buyer_id, sale) ==
    LET call == [NoCall EXCEPT !.op = "resolve_purchase", !.caller = caller,
                               !.ft_token_id = ft_token_id, !.buyer_id = buyer_id]
    IN  /\ ~IsPrivateCall(caller)
        /\ Fail(call, ErrPrivate)

\* the callback: the runtime runs resolve_purchase once the nft_transfer of
\* promise i has settled, with its result
ResolvePurchaseCallback(i) ==
    /\ i \in 1 .. Len(promises)
    /\ promises[i].status = "AwaitingResult"
    /\ \E result \in PromiseResults :
        LET p == promises[i]
            r == ResolvePurchase(p.ft_token_id, p.buyer_id, p.sale, result,
                                 overflow_checks)
        IN  /\ promises' = [promises EXCEPT ![i] = Settled(p, r.outcome)]
            /\ last' = [NoCall EXCEPT
                    !.op = "resolve_purchase", !.caller = CurrentAccount,
                    !.key = MakeKey(p.nft_contract_id, p.token_id),
                    !.ft_token_id = p.ft_token_id, !.buyer_id = p.buyer_id,
                    !.sid = i, !.result = result,
                    !.err = r.err, !.ret = r.ret, !.out = r.out]
            /\ UNCHANGED <<sales, storage_deposits, overflow_checks, sale_uid, next_uid>>

----------------------------------------------------------------------------
(* The specification *)

Init ==
    /\ sales = << >>
    /\ storage_deposits \in DepositBooks
    /\ overflow_checks \in BOOLEAN
    /\ promises = << >>
    /\ sale_uid = << >>
    /\ next_uid = 1
    /\ last = NoCall

Next ==
    \/ \E caller \in Accounts, c \in NftContracts, t \in TokenIds, owner_id \in Accounts,
          approval_id \in ApprovalIds(next_uid), prices \in SalePriceLists :
            AddSale(caller, c, t, owner_id, approval_id, prices)
    \/ \E caller \in Accounts, c \in NftContracts, t \in TokenIds,
          ft_token_id \in FungibleTokenIds, price \in Prices :
            UpdatePrice(caller, c, t, ft_token_id, price)
    \/ \E caller \in Accounts, c \in NftContracts, t \in TokenIds :
            RemoveSale(caller, c, t)
    \/ \E caller \in Accounts, c \in NftContracts, t \in TokenIds :
            GetSale(caller, c, t)
    \/ \E caller \in Accounts, c \in NftContracts, t \in TokenIds, deposit \in Deposits :
            Purchase(caller, c, t, deposit)
    \/ \E caller \in Accounts \cup {CurrentAccount}, c \in NftContracts, t \in TokenIds,
          ft_token_id \in FungibleTokenIds :
            \E buyer_id \in (IF caller = CurrentAccount THEN Accounts ELSE {caller}) :
                ProcessPurchaseCall(caller, c, t, ft_token_id, buyer_id)
    \/ \E caller \in Accounts, ft_token_id \in FungibleTokenIds :
            ResolvePurchaseCall(caller, ft_token_id, caller,
                                Sale(caller, 1, Insert(<< >>, ft_token_id, MaxPrice)))
    \/ \E i \in 1 .. MaxSales : ResolvePurchaseCallback(i)

Spec == Init /\ [][Next]_vars

\* one deposit book and one build, for the properties of whole behaviours
FairInit ==
    /\ Init
    /\ storage_deposits = {"alice"}
    /\ overflow_checks

\* the runtime delivers the result of every settled nft_transfer to its callback
FairSpec ==
    /\ FairInit
    /\ [][Next]_vars
    /\ \A i \in 1 .. MaxSales : WF_vars(ResolvePurchaseCallback(i))

\* every SalePriceItem: price and ft_token_id are both Option
PriceItems ==
    { PriceItem(price, ft_token_id) :
        price \in {None} \cup { Some(x) : x \in Prices },
        ft_token_id \in {None} \cup { Some(f) : f \in FungibleTokenIds } }

\* every `prices: Vec<SalePriceItem>` of up to MaxListLen items
AllPriceLists == UNION { [1 .. n -> PriceItems] : n \in 0 .. MaxListLen }

\* add_sale over every price list: one deposit book, no purchase in flight
FoldInit ==
    /\ Init
    /\ storage_deposits = {"alice"}
    /\ overflow_checks

FoldNext ==
    \/ \E caller \in storage_deposits, c \in NftContracts, t \in TokenIds,
          approval_id \in ApprovalIds(next_uid), prices \in AllPriceLists :
            AddSale(caller, c, t, caller, approval_id, prices)
    \/ \E c \in NftContracts, t \in TokenIds :
            GetSale(CurrentAccount, c, t)

FoldSpec == FoldInit /\ [][FoldNext]_vars

\* two tokens of the one NFT contract: two listing keys
TwoTokenIds == {"1", "2"}

\* the registry operations over two keys: both accounts hold a storage deposit,
\* no purchase
RegistryInit ==
    /\ Init
    /\ storage_deposits = {"alice", "bob"}
    /\ overflow_checks

RegistryNext ==
    \/ \E caller \in Accounts, c \in NftContracts, t \in TwoTokenIds,
          approval_id \in ApprovalIds(next_uid), prices \in SalePriceLists :
            AddSale(caller, c, t, caller, approval_id, prices)
    \/ \E caller \in Accounts, c \in NftContracts, t \in TwoTokenIds,
          ft_token_id \in FungibleTokenIds, price \in Prices :
            UpdatePrice(caller, c, t, ft_token_id, price)
    \/ \E caller \in Accounts, c \in NftContracts, t \in TwoTokenIds :
            RemoveSale(caller, c, t)
    \/ \E caller \in Accounts, c \in NftContracts, t \in TwoTokenIds :
            GetSale(caller, c, t)

RegistrySpec == RegistryInit /\ [][RegistryNext]_vars

----------------------------------------------------------------------------
(* Vocabulary of the properties *)

\* the last invocation is the callback the runtime made for a settled nft_transfer
IsCallback(l) == l.op = "resolve_purchase" /\ l.caller = CurrentAccount

\* the last invocation reserved a Sale: it took it out and asked for the transfer
IsReservation(l) == l.op \in {"purchase", "process_purchase"} /\ l.err = ""

\* the result carries a payout mapping: a JSON object whose amounts fit the type
CarriesPayout(result) ==
    /\ result.status = "Successful"
    /\ result.value.json
    /\ \A r \in DOMAIN result.value.entries : result.value.entries[r] <= U128_MAX

\* the sum of a payout's amounts as integers, without any width
RECURSIVE SumOver(_, _)
SumOver(payout, rs) ==
    IF rs = {}
    THEN 0
    ELSE LET r == CHOOSE x \in rs : TRUE IN payout[r] + SumOver(payout, rs \ {r})

TrueSum(payout) == SumOver(payout, DOMAIN payout)

\* the price of the Sale a promise pair was made for, in the settlement currency
ReservedPrice(p) == p.sale.conditions[p.ft_token_id]

\* one transfer per payout entry, native or through the token contract
EntryTransfers(payout, ft_token_id) ==
    { [kind |-> IF ft_token_id = NEAR THEN "transfer" ELSE "ft_transfer",
       to |-> r, amount |-> payout[r], via |-> ft_token_id] : r \in DOMAIN payout }

----------------------------------------------------------------------------
(* C1 - C4: the settlement callback *)

\* C1: whatever result the runtime delivers for a reserved Sale, resolve_purchase
\* completes without a panic and the settlement ends Paid or Refunded.
C1_CallbackEndsPaidOrRefunded ==
    IsCallback(last) =>
        /\ last.err = ""
        /\ promises[last.sid].status \in {"Paid", "Refunded"}

\* C2: on a failed result, on a payout whose sum is not the price and on a payout
\* of more than 8 entries, no payout entry is paid and the whole price is
\* compensated: one native transfer of the price to the buyer, or, for a token,
\* no transfer and the price as the returned leftover.
C2_RejectedIsCompensatedInFull ==
    [][ IsCallback(last') =>
          LET p == promises[last'.sid]
              res == last'.result
              rejected ==
                  \/ res.status = "Failed"
                  \/ /\ CarriesPayout(res)
                     /\ \/ TrueSum(res.value.entries) # ReservedPrice(p)
                        \/ Cardinality(DOMAIN res.value.entries) > PayoutLimit
          IN  rejected =>
                /\ last'.err = ""
                /\ last'.ret = Some(ReservedPrice(p))
                /\ last'.out = IF p.ft_token_id = NEAR
                               THEN { [kind |-> "transfer", to |-> p.buyer_id,
                                       amount |-> ReservedPrice(p), via |-> NEAR] }
                               ELSE {}
      ]_vars

\* C3: a successful result whose payout has at most 8 entries and sums to the
\* price is paid out entry by entry: the receipts of the callback are exactly one
\* transfer per entry, of the entry's amount, native or through the token
\* contract, and nothing else (no refund, no other receiver).
C3_AcceptedPayoutIsPaidExactly ==
    [][ IsCallback(last') =>
          LET p == promises[last'.sid]
              res == last'.result
          IN  ( /\ CarriesPayout(res)
                /\ Cardinality(DOMAIN res.value.entries) <= PayoutLimit
                /\ TrueSum(res.value.entries) = ReservedPrice(p) )
              => last'.out = EntryTransfers(res.value.entries, p.ft_token_id)
      ]_vars

\* a two-entry payout summing to the price has been paid out
C3_Witness ==
    /\ IsCallback(last)
    /\ last.err = ""
    /\ promises[last.sid].status = "Paid"
    /\ Cardinality(last.out) = 2
    /\ TrueSum(last.result.value.entries) > 0

\* C4 as stated: a paid settlement reports 0 to its caller, in every currency.
C4_PaidReportsZero ==
    (IsCallback(last) /\ promises[last.sid].status = "Paid") => last.ret = Some(0)

\* C4 as amended: a paid settlement reports 0 when the currency is a fungible
\* token and the sale price when the currency is native.
C4_PaidReportsZeroForTokenPriceForNative ==
    [][ (IsCallback(last') /\ promises'[last'.sid].status = "Paid") =>
          last'.ret = Some(IF promises[last'.sid].ft_token_id = NEAR
                           THEN ReservedPrice(promises[last'.sid])
                           ELSE 0)
      ]_vars

\* a native settlement at a non-zero price has been paid out
C4_Witness ==
    /\ IsCallback(last)
    /\ promises[last.sid].status = "Paid"
    /\ last.ft_token_id = NEAR
    /\ last.ret.some
    /\ last.ret.val > 0

----------------------------------------------------------------------------
(* C5 - C7: the reservation *)

\* the listing key a promise pair was made for
PromiseKey(p) == MakeKey(p.nft_contract_id, p.token_id)

\* C5 as stated: while a settlement is pending, every purchase, remove_sale and
\* get_sale on its listing key fails with 'No sale'.
C5_NotFoundWhilePending ==
    \A i \in 1 .. Len(promises) :
        ( /\ promises[i].status = "AwaitingResult"
          /\ last.key = PromiseKey(promises[i])
          /\ last.op \in {"purchase", "remove_sale", "get_sale"}
          /\ last.sid # i )
        => last.err = ErrNoSale

\* C5 as amended: a reservation takes the Sale out of the registry in the
\* invocation that issues the nft_transfer; a key that holds no Sale gets one
\* only through add_sale on that key; and as long as the key holds no Sale,
\* purchase, remove_sale and get_sale on it fail with 'No sale' and change nothing.
C5_NotFoundUntilListedAgain ==
    [][ /\ IsReservation(last') =>
              /\ last'.key \in DOMAIN sales
              /\ last'.key \notin DOMAIN sales'
              /\ \E x \in last'.out : x.kind = "nft_transfer"
        /\ \A k \in Keys :
              (k \notin DOMAIN sales /\ k \in DOMAIN sales') =>
                  (last'.op = "add_sale" /\ last'.err = "" /\ last'.key = k)
        /\ ( /\ last'.op \in {"purchase", "remove_sale", "get_sale"}
             /\ last'.key \notin DOMAIN sales ) =>
              /\ last'.err = ErrNoSale
              /\ sales' = sales
              /\ promises' = promises
      ]_vars

\* remove_sale on the key of a pending settlement has failed with 'No sale'
C5_Witness ==
    \E i \in 1 .. Len(promises) :
        /\ promises[i].status = "AwaitingResult"
        /\ last.key = PromiseKey(promises[i])
        /\ last.op = "remove_sale"
        /\ last.err = ErrNoSale

\* C6: a created Sale is reserved at most once: no two promise pairs are for the
\* same Sale, a reserved Sale is no longer in the registry, and a reservation
\* issues exactly one nft_transfer.
C6_OneReservationPerSale ==
    /\ \A i, j \in 1 .. Len(promises) :
          i # j => promises[i].uid # promises[j].uid
    /\ \A i \in 1 .. Len(promises) :
          \A k \in DOMAIN sale_uid : sale_uid[k] # promises[i].uid
    /\ IsReservation(last) =>
          Cardinality({ x \in last.out : x.kind = "nft_transfer" }) = 1

\* a second buyer's purchase of a Sale that is being settled has failed
C6_Witness ==
    \E i \in 1 .. Len(promises) :
        /\ promises[i].status = "AwaitingResult"
        /\ last.key = PromiseKey(promises[i])
        /\ last.op = "purchase"
        /\ last.caller # promises[i].buyer_id
        /\ last.err = ErrNoSale

\* C7: a promise pair comes into being only in the invocation that takes its
\* Sale out of the registry, and starts awaiting its result; it never goes back:
\* pairs are never dropped, a resolved pair never changes again, and a pair
\* changes only by its callback, which leaves it resolved; and the callback of
\* every pair does run.
C7_SettlementMovesForwardOnce ==
    /\ [][ /\ Len(promises') >= Len(promises)
           /\ \A i \in 1 .. Len(promises) :
                 /\ promises[i].status # "AwaitingResult" => promises'[i] = promises[i]
                 /\ promises'[i] # promises[i] =>
                       /\ IsCallback(last')
                       /\ last'.sid = i
                       /\ promises'[i].status # "AwaitingResult"
                       /\ promises'[i].uid = promises[i].uid
           /\ Len(promises') > Len(promises) =>
                 /\ Len(promises') = Len(promises) + 1
                 /\ IsReservation(last')
                 /\ last'.key \in DOMAIN sales
                 /\ last'.key \notin DOMAIN sales'
                 /\ promises'[Len(promises')].status = "AwaitingResult"
                 /\ promises'[Len(promises')].sale = sales[last'.key]
           /\ IsCallback(last') =>
                 /\ promises[last'.sid].status = "AwaitingResult"
                 /\ promises'[last'.sid].status # "AwaitingResult"
         ]_vars
    /\ \A i \in 1 .. MaxSales :
          [](i <= Len(promises) =>
                <>(i <= Len(promises) /\ promises[i].status # "AwaitingResult"))

\* the callback of a reservation has run and refunded
C7_Witness ==
    /\ IsCallback(last)
    /\ promises[last.sid].status = "Refunded"

----------------------------------------------------------------------------
(* C8 - C10: who may do what to a Sale *)

\* C8: a purchase whose payment is not the stored native price fails, leaves the
\* registry as it was and issues no request.
C8_WrongPaymentFails ==
    [][ ( /\ last'.op = "purchase"
          /\ last'.key \in DOMAIN sales
          /\ NEAR \in DOMAIN sales[last'.key].conditions
          /\ last'.amount # sales[last'.key].conditions[NEAR] )
        => /\ last'.err = ErrPayment
           /\ sales' = sales
           /\ promises' = promises
           /\ last'.out = {}
      ]_vars

\* a purchase paying more than the price has failed and the Sale is still there
C8_Witness ==
    /\ last.op = "purchase"
    /\ last.err = ErrPayment
    /\ last.key \in DOMAIN sales
    /\ last.amount > sales[last.key].conditions[NEAR]

\* C9: update_price and remove_sale by a caller who is not the Sale's owner fail
\* with 'Must be sale owner' and leave the registry as it was.
C9_NonOwnerCannotChangeOrRemove ==
    [][ ( /\ last'.op \in {"update_price", "remove_sale"}
          /\ last'.key \in DOMAIN sales
          /\ last'.caller # sales[last'.key].owner_id )
        => /\ last'.err = ErrNotOwner
           /\ sales' = sales
      ]_vars

\* remove_sale by a non-owner has failed and the Sale is still there
C9_Witness ==
    /\ last.op = "remove_sale"
    /\ last.err = ErrNotOwner
    /\ last.key \in DOMAIN sales
    /\ last.caller # sales[last.key].owner_id

\* C10: a Sale is created only by its owner, changes only in an invocation by
\* its owner, and leaves the registry only by its owner's remove_sale or by a
\* reservation.
C10_OnlyOwnerCreatesChangesRemoves ==
    [][ \A k \in Keys :
          /\ (k \notin DOMAIN sales /\ k \in DOMAIN sales') =>
                last'.caller = sales'[k].owner_id
          /\ (k \in DOMAIN sales /\ k \in DOMAIN sales' /\ sales'[k] # sales[k]) =>
                last'.caller = sales[k].owner_id
          /\ (k \in DOMAIN sales /\ k \notin DOMAIN sales') =>
                \/ last'.op = "remove_sale" /\ last'.caller = sales[k].owner_id
                \/ IsReservation(last')
      ]_vars

----------------------------------------------------------------------------
(* C11 - C13: preconditions *)

\* C11: add_sale by a caller who holds no storage deposit fails with the
\* storage-deposit error and leaves the registry as it was, whatever owner the
\* call names.
C11_CallerWithoutDepositCannotList ==
    [][ (last'.op = "add_sale" /\ last'.caller \notin storage_deposits) =>
            /\ last'.err = ErrNoDeposit
            /\ sales' = sales
      ]_vars

\* C12: the callback accepts (pays out) exactly when the result succeeded, its
\* payload is a payout mapping, the mapping has at most 8 entries and its
\* amounts sum to the reserved price; in every other case it rejects (refunds).
C12_AcceptedExactlyWhenValid ==
    [][ IsCallback(last') =>
          LET p == promises[last'.sid]
              res == last'.result
              valid ==
                  /\ CarriesPayout(res)
                  /\ Cardinality(DOMAIN res.value.entries) <= PayoutLimit
                  /\ TrueSum(res.value.entries) = ReservedPrice(p)
          IN  promises'[last'.sid].status = IF valid THEN "Paid" ELSE "Refunded"
      ]_vars

\* C13: purchase, remove_sale, get_sale and update_price on a key that holds
\* no Sale fail with 'No sale'; purchase of a Sale that has no native condition
\* fails with 'Not for sale in NEAR'; each of these failures leaves the registry,
\* the promise pairs and the reserved Sales as they were and issues no receipt.
C13_MissingSaleOrCurrencyFails ==
    [][ /\ ( /\ last'.op \in {"purchase", "remove_sale", "get_sale", "update_price"}
             /\ last'.key \notin DOMAIN sales )
           => /\ last'.err = ErrNoSale
              /\ last'.out = {}
              /\ UNCHANGED <<sales, promises, sale_uid>>
        /\ ( /\ last'.op = "purchase"
             /\ last'.key \in DOMAIN sales
             /\ NEAR \notin DOMAIN sales[last'.key].conditions )
           => /\ last'.err = ErrNotInNear
              /\ last'.out = {}
              /\ UNCHANGED <<sales, promises, sale_uid>>
      ]_vars

\* a purchase of a Sale listed in a token only has failed, the Sale is still there
C13_Witness ==
    /\ last.op = "purchase"
    /\ last.err = ErrNotInNear
    /\ last.key \in DOMAIN sales
    /\ FT \in DOMAIN sales[last.key].conditions

----------------------------------------------------------------------------
(* C14 - C16: what a listing holds *)

\* the currency an item of a price list names: the native one when it names none
ItemCurrency(item) == IF item.ft_token_id.some THEN item.ft_token_id.val ELSE NEAR

\* the price an item of a price list states: zero when it states none
ItemPrice(item) == IF item.price.some THEN item.price.val ELSE 0

\* the conditions a price list stands for: each currency the list names, at the
\* price of the last item that names it
ExpectedConditions(prices) ==
    LET named == { ItemCurrency(prices[i]) : i \in 1 .. Len(prices) }
        lastOf(c) == CHOOSE i \in 1 .. Len(prices) :
                        /\ ItemCurrency(prices[i]) = c
                        /\ \A j \in (i + 1) .. Len(prices) : ItemCurrency(prices[j]) # c
    IN  [c \in named |-> ItemPrice(prices[lastOf(c)])]

\* C14: a successful add_sale stores, for every ordered price list, the left to
\* right fold of the list (no currency named: native; no price stated: zero; a
\* later item of a currency replaces an earlier one), the empty map for the
\* empty list, and no bids.
C14_ConditionsAreTheFoldOfPrices ==
    (last.op = "add_sale" /\ last.err = "") =>
        /\ last.key \in DOMAIN sales
        /\ sales[last.key].conditions = ExpectedConditions(last.prices)
        /\ (last.prices = << >> => sales[last.key].conditions = << >>)
        /\ sales[last.key].bids = << >>

\* a list of three items was stored: a currency named twice at different prices,
\* an item without currency and an item without price
C14_Witness ==
    /\ last.op = "add_sale"
    /\ last.err = ""
    /\ Len(last.prices) = 3
    /\ \E i \in 1 .. 3, j \in 1 .. 3 :
          /\ i < j
          /\ ItemCurrency(last.prices[i]) = ItemCurrency(last.prices[j])
          /\ ItemPrice(last.prices[i]) # ItemPrice(last.prices[j])
    /\ \E i \in 1 .. 3 : ~last.prices[i].ft_token_id.some
    /\ \E i \in 1 .. 3 : ~last.prices[i].price.some
    /\ sales[last.key].conditions = ExpectedConditions(last.prices)

\* the Sales that were ever created and are no longer in the registry are those
\* of the promise pairs; uids tell Sales apart
RegistryUids == { sale_uid[k] : k \in DOMAIN sale_uid }

\* C15: a key holds at most one Sale, and a Sale that add_sale creates is a fresh
\* one, also at a key whose earlier Sale was removed or reserved: its owner, its
\* approval id and its conditions are those of the call alone, it has no bids,
\* and it is a Sale that neither the registry nor a promise pair held before.
C15_CreatedSaleIsFresh ==
    [][ /\ DOMAIN sale_uid' = DOMAIN sales'
        /\ (last'.op = "add_sale" /\ last'.err = "") =>
              /\ sales'[last'.key] =
                    [owner_id |-> last'.owner_id,
                     approval_id |-> last'.approval_id,
                     conditions |-> ExpectedConditions(last'.prices),
                     bids |-> << >>]
              /\ sale_uid'[last'.key] \notin RegistryUids
              /\ \A i \in 1 .. Len(promises) : promises[i].uid # sale_uid'[last'.key]
      ]_vars

\* a Sale was created at a key whose earlier Sale is reserved and not yet
\* settled; the reserved Sale had a currency the new one does not have
C15_Witness ==
    /\ last.op = "add_sale"
    /\ last.err = ""
    /\ \E i \in 1 .. Len(promises) :
          /\ promises[i].status = "AwaitingResult"
          /\ PromiseKey(promises[i]) = last.key
          /\ promises[i].uid # sale_uid[last.key]
          /\ DOMAIN promises[i].sale.conditions \ DOMAIN sales[last.key].conditions # {}
          /\ promises[i].sale.approval_id # sales[last.key].approval_id

\* C16: a successful update_price, which only the owner of the Sale makes,
\* changes the price of the one currency in the one Sale and nothing else: the
\* Sale keeps its owner, approval id, bids and the prices of its other
\* currencies, the Sales at other keys stay as they were, and no receipt goes out.
C16_UpdatePriceChangesOnePrice ==
    [][ (last'.op = "update_price" /\ last'.err = "") =>
          LET key == last'.key
              ft == last'.ft_token_id
          IN  /\ key \in DOMAIN sales
              /\ last'.caller = sales[key].owner_id
              /\ DOMAIN sales' = DOMAIN sales
              /\ \A k \in DOMAIN sales \ {key} : sales'[k] = sales[k]
              /\ sales'[key].owner_id = sales[key].owner_id
              /\ sales'[key].approval_id = sales[key].approval_id
              /\ sales'[key].bids = sales[key].bids
              /\ DOMAIN sales'[key].conditions = DOMAIN sales[key].conditions \cup {ft}
              /\ sales'[key].conditions[ft] = last'.amount
              /\ \A c \in DOMAIN sales[key].conditions \ {ft} :
                    sales'[key].conditions[c] = sales[key].conditions[c]
              /\ last'.out = {}
              /\ UNCHANGED <<promises, sale_uid, storage_deposits>>
      ]_vars

\* the price of one currency was set in a Sale that has another currency, with
\* a Sale of the other account at the other key
C16_Witness ==
    /\ last.op = "update_price"
    /\ last.err = ""
    /\ last.amount = MaxPrice
    /\ DOMAIN sales = { MakeKey(c, t) : c \in NftContracts, t \in TwoTokenIds }
    /\ DOMAIN sales[last.key].conditions = {NEAR, FT}
    /\ sales[last.key].conditions[last.ft_token_id] = MaxPrice
    /\ \E k \in DOMAIN sales : sales[k].owner_id # sales[last.key].owner_id

----------------------------------------------------------------------------
(* C17 - C19: the callback and its guards *)

C18_PrivateMethodsRejectOtherCallers ==
    [][ /\ ( /\ last'.op \in {"process_purchase", "resolve_purchase"}
             /\ last'.caller # CurrentAccount )
           => /\ last'.err = ErrPrivate
              /\ last'.out = {}
              /\ UNCHANGED <<sales, promises, sale_uid>>
        /\ Len(promises') > Len(promises)
           => \/ /\ last'.op = "purchase"
                 /\ last'.amount = ReservedPrice(promises'[Len(promises')])
                 /\ promises'[Len(promises')].ft_token_id = NEAR
              \/ /\ last'.op = "process_purchase"
                 /\ last'.caller = CurrentAccount
        /\ (\E r \in last'.out : r.kind \in {"transfer", "ft_transfer"})
           => /\ IsCallback(last')
              /\ last'.sid \in 1 .. Len(promises)
              /\ promises[last'.sid].status = "AwaitingResult"
      ]_vars

\* an account invoked process_purchase for a listed Sale in a currency the Sale
\* has, and the invocation failed as private
C18_Witness ==
    /\ last.op = "process_purchase"
    /\ last.caller \in Accounts
    /\ last.err = ErrPrivate
    /\ last.key \in DOMAIN sales
    /\ last.ft_token_id \in DOMAIN sales[last.key].conditions
    /\ sales[last.key].conditions[last.ft_token_id] > 0

\* C19: a payout of at most 8 entries whose amounts each fit 128 bits and add up
\* to more than 2^128 - 1 is never accepted: the callback ends in the refund,
\* neither in a payout nor in a panic.
C19_OverflowingPayoutIsRefunded ==
    [][ ( /\ IsCallback(last')
          /\ CarriesPayout(last'.result)
          /\ Cardinality(DOMAIN last'.result.value.entries) <= PayoutLimit
          /\ TrueSum(last'.result.value.entries) > U128_MAX )
        => /\ promises'[last'.sid].status = "Refunded"
           /\ last'.err = ""
      ]_vars

====
